---- MODULE Spec2Model ----
(***************************************************************************)
(* Model of netboot's Host controller (src/netboot/hostutils.py): the      *)
(* transfer worker process, the progress queue, the controller operations  *)
(* that run under Host.__lock (send, tick, status, progress), the alive    *)
(* setter, which takes no lock, and the ping thread.                       *)
(*                                                                         *)
(* Threads of the model:                                                   *)
(*   - the controller thread (pc): send / tick / status / progress.  All   *)
(*     of them take Host.__lock, so callers on several threads are         *)
(*     serialised and one thread stands for them;                          *)
(*   - the setter thread (setter_pc): `host.alive = False`, statement by   *)
(*     statement, because the setter does not take the lock;               *)
(*   - one process per transfer worker (wstate);                           *)
(*   - the ping thread (poll_pc).                                          *)
(*                                                                         *)
(* multiprocessing.Queue is modelled as a FIFO sequence; a message is in   *)
(* the queue from the moment put() has handed it over.  Every message      *)
(* carries, as a third component the code does not have, the number of the *)
(* worker that produced it.                                                *)
(*                                                                         *)
(* The cabinet (netboot/cabinet.py) drives one Host: Cabinet.tick is the   *)
(* automaton of the specification, section 4.5, one call of it a step up   *)
(* to its call of the Host (tick_pc) and a step on its return.  The        *)
(* control plane (src/netboot/web/app.py) is one step per request: what    *)
(* the view does to the cabinet, and what the client gets back.            *)
(***************************************************************************)
EXTENDS Integers, Sequences, FiniteSets, TLC

\* ------------------------------------------------------------------ bounds
\* Number of transfer workers one behaviour may spawn.
MaxWorkers == 3
\* Size of the image in progress units: a worker reports sent = 1..ImageSize.
ImageSize == 2
\* Number of messages the pipe behind the queue holds; a put waits for room.
MaxQueue == 2

\* Length of an image in bytes.
DataLen == 2
\* Number of patch files one call may name.
MaxPatches == 2

\* Number of events of one power cycle the history keeps.
MaxEvents == 6
\* Number of games one request to update the games may name.
MaxGames == 1

\* ------------------------------------------------------- program constants
DEBOUNCE_SECONDS == 3

Workers == 1..MaxWorkers
NoProc == 0
Sentinel == <<-1, -1>>

VARIABLES
    proc,          \* Host.__proc: NoProc (None) or the number of the worker process
    queue,         \* Host.__queue: sequence of <<tag, payload, producer>>
    lastprogress,  \* Host.__lastprogress
    laststatus,    \* Host.__laststatus: "none" | "completed" | "failed"
    alive,         \* Host.__alive
    poll_reset,    \* Host.__poll_reset
    lock,          \* Host.__lock: "free" | "ctl" | "poll"
    pc,            \* controller thread: "idle" | "send_loop" | "send_join" | "tick_join"
    raised,        \* how the last controller operation ended: "none" (it returned),
                   \* "busy" (send refused), "midtransfer" (reboot refused),
                   \* "attr" (AttributeError on a handle that was None),
                   \* "skipped" (wipe or info returned without a DIMM command),
                   \* "dimm_ok" (the DIMM command was answered),
                   \* "dimm_error" (the DIMM command raised NetDimmException,
                   \* which was caught)
    setter_pc,     \* thread in the alive setter: "idle" | "terminate" | "join" | "clear"
    wstate,        \* per worker: "unborn" | "running" | "posted" | "exited" | "killed" | "orphaned"
    wsent,         \* per worker: the sent value of its last progress callback
    wterm,         \* per worker: how many terminal messages it has put so far
    spawned,       \* number of workers started so far
    parent,        \* TRUE while the process that owns the Host exists
    poll_pc,       \* ping thread: "status" | "ping" | "publish" | "timehack" | "hack"
    success_count, \* __poll_thread local
    failure_count, \* __poll_thread local
    probes,        \* history: the results of the last DEBOUNCE_SECONDS pings, oldest first
    fresh,         \* history: pings answered since the last `alive = False`, counted
                   \* up to DEBOUNCE_SECONDS (that value too while there was none)
    time_hack,     \* Host.time_hack
    image,         \* what crc and send are called with: the bytes of the file named,
                   \* the patch list, the settings, and Host.target
    crc_data,      \* the bytes Host.crc handed to NetDimm.crc, NoData before that
    sent_data,     \* the bytes the worker handed to NetDimm.send, NoData before that
    exists,        \* the CabinetManager holds the cabinet
    state,         \* Cabinet.state[0]
    tick_pc,       \* where Cabinet.tick is: "idle" | "send" | "offline"
    enabled,       \* Cabinet.enabled
    filename,      \* Cabinet.filename, the selected game, NoFile for None
    current,       \* the game most recently sent, NoFile before the first
    cabinet_patches,   \* Cabinet.patches: per file its patch list, Absent for no key
    cabinet_settings,  \* Cabinet.settings: per file "none" (None) or its settings
    cabinet_srams,     \* Cabinet.srams: per file "none" (None) or its SRAM file
    power_cycle,   \* Cabinet.power_cycle
    outlet,        \* Cabinet.outlet: NoOutlet (None) or the configuration stored
    controllable,  \* Cabinet.controllable
    power_state,   \* Cabinet.power_state: "unknown" | "on" | "off"
    logs,          \* the lines the last tick logged
    sends,         \* the calls of host.send the last tick made
    events,        \* history: since the last write of OFF to the outlet, the
                   \* writes to the outlet, the changes of host.alive and the
                   \* calls of host.send, oldest first
    request,       \* history: the last request to the control plane
    response,      \* what it was answered: "none" | "ok" ({..., error: False}) |
                   \* "error" ({error: True, message}) | "unhandled" (the
                   \* exception left the view: no JSON from the application)
    responding     \* TRUE while the machine at the cabinet's address answers ping

vars == <<proc, queue, lastprogress, laststatus, alive, poll_reset, lock, pc, raised,
          setter_pc, wstate, wsent, wterm, spawned, parent,
          poll_pc, success_count, failure_count, probes, fresh, time_hack,
          image, crc_data, sent_data,
          exists, state, tick_pc, enabled, filename, current,
          cabinet_patches, cabinet_settings, cabinet_srams, power_cycle, outlet,
          controllable,
          power_state, logs, sends, events, request, response, responding>>

hostvars == <<proc, queue, lastprogress, laststatus>>
pollvars == <<poll_pc, success_count, failure_count, probes, fresh, time_hack>>
workervars == <<wstate, wsent, wterm, spawned>>
imagevars == <<image, crc_data, sent_data>>
cabinetvars == <<exists, state, tick_pc, enabled, filename, current,
                 cabinet_patches, cabinet_settings, cabinet_srams, power_cycle, outlet,
                 controllable,
                 power_state, logs, sends, events, request, response, responding>>

\* ----------------------------------------------------- images and patches
Bytes == 0..1

NoData == <<-1>>

\* One patch file: the byte it writes and where.
PatchFiles == (1..DataLen) \X Bytes

PatchLists == UNION {[1..n -> PatchFiles] : n \in 0..MaxPatches}

SettingsTypes == {"eeprom", "sram"}

\* Dict[SettingsEnum, bytes] in the order of its items(): no key twice.
SettingsDicts ==
    {d \in UNION {[1..n -> SettingsTypes \X Bytes] : n \in 0..Cardinality(SettingsTypes)} :
        \A i, j \in 1..Len(d) : i # j => d[i][1] # d[j][1]}

\* NetDimmTargetEnum: TARGET_NAOMI and any other target.
Targets == {"naomi", "other"}

Images == [data : [1..DataLen -> Bytes], patches : PatchLists,
           settings : SettingsDicts, target : Targets]

FirstImage == [data |-> [i \in 1..DataLen |-> 0], patches |-> <<>>,
               settings |-> <<>>, target |-> "naomi"]

\* BinaryDiff.patch(data, differences) for the differences of one patch file.
BinaryDiffPatch(data, patch) == [data EXCEPT ![patch[1]] = patch[2]]

\* NaomiSettingsPatcher(data, trojan).put_eeprom(setting), then .data: the
\* image with the settings attached behind it.
PutEeprom(data, setting) == Append(data, 10 + setting)

\* The same with put_sram.
PutSram(data, setting) == Append(data, 20 + setting)

\* Lines 37-41: the patch files in the order given.
RECURSIVE ApplyPatches(_, _)
ApplyPatches(data, patches) ==
    IF patches = <<>> THEN data
    ELSE ApplyPatches(BinaryDiffPatch(data, Head(patches)), Tail(patches))

\* Lines 43-55: the settings in the order of the dict, for Naomi only.
RECURSIVE ApplySettings(_, _, _)
ApplySettings(data, target, settings) ==
    IF settings = <<>> THEN data
    ELSE LET typ == Head(settings)[1]
             setting == Head(settings)[2]
             next == IF target # "naomi" THEN data
                     ELSE IF typ = "eeprom" THEN PutEeprom(data, setting)
                     ELSE PutSram(data, setting)
         IN ApplySettings(next, target, Tail(settings))

\* _handle_patches(data, target, patches, settings)
HandlePatches(data, target, patches, settings) ==
    ApplySettings(ApplyPatches(data, patches), target, settings)

\* ============================================================== Cabinet
\* netboot/cabinet.py, the per-cabinet automaton, written after the
\* specification of the cabinet state machine and after the way
\* src/tests/test_cabinet.py drives it.  The definitions of this section
\* constrain the cabinet's variables only; a specification joins them with
\* the steps of the Host that they call.

\* Every game file a request may name, and the ones the ROM directories hold.
Files == {"a.bin", "b.bin"}

Roms == {"a.bin"}

\* filename = None.
NoFile == "none"

\* The value of Cabinet.patches at a file that is no key of the dict.
Absent == <<"absent">>

\* Cabinet.outlet = None.
NoOutlet == [type |-> "none", outlet |-> 0]

\* The outlet configuration of a cabinet that has one.
FirstOutlet == [type |-> "ap7900", outlet |-> 1]

\* The types a request may give its outlet: none, two of the known ones
\* (np-02 and np-02b are read as ap7900 is, with other keys), and one that
\* no branch of updateoutlet knows.
OutletTypes == {"none", "ap7900", "snmp", "bogus"}

KnownTypes == {"ap7900", "snmp"}

\* The outlet numbers a request may carry: one that AP7900Outlet takes and
\* one for which it raises.
OutletNumbers == {1, 9}

\* request.json['outlet']: its type, whether every key of that type is there
\* with a value that str() or int() takes, and the value of its 'outlet' key.
OutletData == [type : OutletTypes, complete : BOOLEAN, outlet : OutletNumbers]

\* The request as the history keeps it: the endpoint, whether it had a JSON
\* body, the <state> of its path, whether it carried a true admin flag, and
\* what a request to the outlet endpoint carried.
Request(op, body, st, admin) ==
    [op |-> op, body |-> body, state |-> st, admin |-> admin,
     outlet |-> [type |-> "none", complete |-> FALSE, outlet |-> 0],
     controllable |-> FALSE, power_cycle |-> FALSE]

\* The lists of enabled patches a request may carry for one game.
PatchChoices == {<<>>, <<"p1">>}

\* Cabinet.settings[file]: None, or what put_naomi_settings returned.
SettingsChoices == {"none", "eeprom"}

\* The keys of cabinet.patches.
Keys == {f \in Files : cabinet_patches[f] # Absent}

\* No patches, whatever the dict holds.
PatchesOfNone(f) == <<>>

\* patches.get(file, []).
PatchesOf(f) == IF cabinet_patches[f] = Absent THEN <<>> ELSE cabinet_patches[f]

\* What tick hands to host.send.
SendArgs == <<filename, PatchesOf(filename), cabinet_settings[filename]>>

\* The history with one more event, once a power cycle has begun and while
\* there is room for it.
Noted(e) ==
    IF events # <<>> /\ Len(events) < MaxEvents THEN Append(events, e) ELSE events

\* Cabinet(ip, region, description, filename, patches, settings, srams) as
\* spawn_cabinet calls it, with p and s at every file, every other argument
\* at its default, and no request made so far.
Constructed(f, p, s, o, c) ==
    /\ state = "STARTUP"
    /\ tick_pc = "idle"
    /\ enabled = TRUE
    /\ filename = f
    /\ current = NoFile
    /\ cabinet_patches = [g \in Files |-> p]
    /\ cabinet_settings = [g \in Files |-> s]
    /\ cabinet_srams = [g \in Files |-> "none"]
    /\ power_cycle = c
    /\ outlet = o
    /\ controllable = FALSE
    /\ power_state = "unknown"
    /\ logs = <<>>
    /\ sends = <<>>
    /\ events = <<>>
    /\ request = Request("none", FALSE, "none", FALSE)
    /\ response = "none"
    /\ responding = TRUE

\* The cabinet of spawn_cabinet(): no game, patches={}, settings={}.
TestCabinet == exists = TRUE /\ Constructed(NoFile, Absent, "none", NoOutlet, FALSE)

\* --------------------------------------------------------------- Host
\* A worker process that has been started and has neither exited nor been killed.
Live(w) == wstate[w] \in {"running", "posted"}

LiveWorkers == {w \in Workers : Live(w)}

\* Host(ip, time_hack=th), lines 113-141.
ConstructedHost(th) ==
    /\ proc = NoProc
    /\ queue = <<>>
    /\ lastprogress = Sentinel
    /\ laststatus = "none"
    /\ alive = FALSE
    /\ poll_reset = FALSE
    /\ lock = "free"
    /\ pc = "idle"
    /\ raised = "none"
    /\ setter_pc = "idle"
    /\ wstate = [w \in Workers |-> "unborn"]
    /\ wsent = [w \in Workers |-> 0]
    /\ wterm = [w \in Workers |-> 0]
    /\ spawned = 0
    /\ parent = TRUE
    /\ poll_pc = "status"
    /\ success_count = 0
    /\ failure_count = 0
    /\ probes = <<>>
    /\ fresh = DEBOUNCE_SECONDS
    /\ time_hack = th
    /\ crc_data = NoData
    /\ sent_data = NoData

\* Host(ip): time_hack is False by default.
HostInit == ConstructedHost(FALSE)

\* A Host whose calls all name one and the same plain image.
Init == HostInit /\ image = FirstImage /\ TestCabinet

\* A Host with any image, patch list, settings and target.
ImageInit == HostInit /\ image \in Images /\ TestCabinet

Terminal == {"completed", "failed"}

\* Status with the two tests in the other order.
StatusHandleFirst ==
    IF proc = NoProc THEN "inactive"
    ELSE IF laststatus # "none" THEN laststatus
    ELSE "transferring"

\* --------------------------------------------------------- Host.status
Status ==
    IF laststatus # "none" THEN laststatus
    ELSE IF proc = NoProc THEN "inactive"
    ELSE "transferring"

\* __update_progress that leaves the last progress as it is when it takes a
\* terminal message.
RECURSIVE DrainKeepProgress(_, _)
DrainKeepProgress(q, lp) ==
    IF q = <<>>
    THEN [queue |-> q, lastprogress |-> lp, laststatus |-> "nochange", done |-> FALSE]
    ELSE LET update == Head(q) IN
         IF update[1] = "progress"
         THEN DrainKeepProgress(Tail(q), update[2])
         ELSE [queue |-> Tail(q),
               lastprogress |-> lp,
               laststatus |-> IF update[1] = "success" THEN "completed" ELSE "failed",
               done |-> TRUE]

\* __update_progress that returns after the first message it takes.
DrainOne(q, lp) ==
    IF q = <<>>
    THEN [queue |-> q, lastprogress |-> lp, laststatus |-> "nochange", done |-> FALSE]
    ELSE LET update == Head(q) IN
         IF update[1] = "progress"
         THEN [queue |-> Tail(q), lastprogress |-> update[2],
               laststatus |-> "nochange", done |-> FALSE]
         ELSE [queue |-> Tail(q),
               lastprogress |-> Sentinel,
               laststatus |-> IF update[1] = "success" THEN "completed" ELSE "failed",
               done |-> TRUE]

\* ------------------------------------------------ Host.__update_progress
\* The get_nowait loop over the messages q, starting from last progress lp.
\* done = TRUE: a terminal message was taken and the join is still to come.
RECURSIVE Drain(_, _)
Drain(q, lp) ==
    IF q = <<>>
    THEN [queue |-> q, lastprogress |-> lp, laststatus |-> "nochange", done |-> FALSE]
    ELSE LET update == Head(q) IN
         IF update[1] = "progress"
         THEN Drain(Tail(q), update[2])
         ELSE [queue |-> Tail(q),
               lastprogress |-> Sentinel,
               laststatus |-> IF update[1] = "success" THEN "completed" ELSE "failed",
               done |-> TRUE]


\* Effect of one call of __update_progress on queue, lastprogress and laststatus.
Drained == Drain(queue, lastprogress)

ApplyDrain(d) ==
    /\ queue' = d.queue
    /\ lastprogress' = d.lastprogress
    /\ laststatus' = IF d.laststatus = "nochange" THEN laststatus ELSE d.laststatus

\* ------------------------------------------------------------ Host.send
\* `if self.__proc is not None: raise HostException(...)`
SendBusy ==
    /\ parent /\ pc = "idle" /\ lock = "free"
    /\ proc # NoProc
    /\ raised' = "busy"
    /\ UNCHANGED <<hostvars, alive, poll_reset, lock, pc, setter_pc, workervars,
                   parent, pollvars, imagevars>>

\* send without the test of line 314.
SendAcceptNoCheck ==
    /\ parent /\ pc = "idle" /\ lock = "free"
    /\ spawned < MaxWorkers
    /\ lastprogress' = Sentinel
    /\ laststatus' = "none"
    /\ spawned' = spawned + 1
    /\ proc' = spawned + 1
    /\ wstate' = [wstate EXCEPT ![spawned + 1] = "running"]
    /\ lock' = "ctl"
    /\ pc' = "send_loop"
    /\ UNCHANGED <<queue, alive, poll_reset, raised, setter_pc, wsent, wterm, parent,
                   pollvars, imagevars>>

\* Lines 316-325: reset progress and status, create and start the process.
\* The lock stays held: the thread goes on to the waiting loop.
SendAccept ==
    /\ parent /\ pc = "idle" /\ lock = "free"
    /\ proc = NoProc
    /\ spawned < MaxWorkers
    /\ lastprogress' = Sentinel
    /\ laststatus' = "none"
    /\ spawned' = spawned + 1
    /\ proc' = spawned + 1
    /\ wstate' = [wstate EXCEPT ![spawned + 1] = "running"]
    /\ lock' = "ctl"
    /\ pc' = "send_loop"
    /\ UNCHANGED <<queue, alive, poll_reset, raised, setter_pc, wsent, wterm, parent,
                   pollvars, imagevars>>

\* One evaluation of `while lastprogress == (-1, -1) and proc is not None`,
\* followed by the loop exit (and the release of the lock) or by one call of
\* __update_progress.  An iteration that finds the queue empty changes nothing.
SendLoop ==
    /\ parent /\ pc = "send_loop"
    /\ IF lastprogress = Sentinel /\ proc # NoProc
       THEN /\ queue # <<>>
            /\ ApplyDrain(Drained)
            /\ pc' = IF Drained.done THEN "send_join" ELSE "send_loop"
            /\ UNCHANGED <<lock, raised>>
       ELSE /\ pc' = "idle"
            /\ lock' = "free"
            /\ raised' = "none"
            /\ UNCHANGED <<queue, lastprogress, laststatus>>
    /\ UNCHANGED <<proc, alive, poll_reset, setter_pc, workervars, parent, pollvars,
                   imagevars>>

\* Join that leaves the handle as it is.
JoinKeepHandle ==
    /\ parent /\ pc \in {"send_join", "tick_join"}
    /\ IF proc = NoProc
       THEN /\ pc' = "idle"
            /\ lock' = "free"
            /\ raised' = "attr"
       ELSE /\ ~Live(proc)
            /\ pc' = "idle" /\ lock' = "free" /\ raised' = "none"
    /\ UNCHANGED <<proc, queue, lastprogress, laststatus, alive, poll_reset, setter_pc,
                   workervars, parent, pollvars, imagevars>>

\* Lines 308-310 of __update_progress: `self.__proc.join(); self.__proc = None`.
\* The handle is read again here; the setter, which holds no lock, may have
\* cleared it in the meantime, and then the attribute access on None raises
\* and the exception leaves the operation (the `with` releases the lock).
Join ==
    /\ parent /\ pc \in {"send_join", "tick_join"}
    /\ IF proc = NoProc
       THEN /\ pc' = "idle"
            /\ lock' = "free"
            /\ raised' = "attr"
            /\ UNCHANGED proc
       ELSE /\ ~Live(proc)
            /\ proc' = NoProc
            /\ IF pc = "send_join"
               THEN pc' = "send_loop" /\ UNCHANGED <<lock, raised>>
               ELSE pc' = "idle" /\ lock' = "free" /\ raised' = "none"
    /\ UNCHANGED <<queue, lastprogress, laststatus, alive, poll_reset, setter_pc,
                   workervars, parent, pollvars, imagevars>>

\* ------------------------------------------------------------ Host.tick
Tick ==
    /\ parent /\ pc = "idle" /\ lock = "free"
    /\ IF proc = NoProc
       THEN /\ raised' = "none"
            /\ UNCHANGED <<queue, lastprogress, laststatus, lock, pc>>
       ELSE /\ ApplyDrain(Drained)
            /\ IF Drained.done
               THEN pc' = "tick_join" /\ lock' = "ctl" /\ UNCHANGED raised
               ELSE raised' = "none" /\ UNCHANGED <<lock, pc>>
    /\ UNCHANGED <<proc, alive, poll_reset, setter_pc, workervars, parent, pollvars,
                   imagevars>>

\* -------------------------------------------------------- Host.progress
\* What the getter hands back: the pair, or "raise" for the HostException.
Progress == IF lastprogress = Sentinel THEN "raise" ELSE lastprogress

\* status and progress change nothing; both take the lock, so a call comes
\* back with the value of a state in which the lock is free.
Readable == parent /\ lock = "free"

\* -------------------------------------------------- Host.alive (setter)
\* A setter that drops the handle at once, without terminate and join.
SetAliveFalseDropHandle ==
    /\ parent /\ setter_pc = "idle"
    /\ poll_reset' = TRUE
    /\ alive' = FALSE
    /\ proc' = NoProc
    /\ fresh' = 0
    /\ UNCHANGED <<queue, lastprogress, laststatus, lock, pc, raised, setter_pc,
                   workervars, parent, poll_pc, success_count, failure_count, probes,
                   time_hack, imagevars>>

\* `host.alive = False`, lines 239-246.  No lock is taken, so each statement
\* that touches self.__proc is a step of its own; self.__proc is read again
\* by every statement, and an access on None raises and ends the setter.
\* Lines 241-243: the two flags and the `is not None` test.
SetAliveFalse ==
    /\ parent /\ setter_pc = "idle"
    /\ poll_reset' = TRUE
    /\ alive' = FALSE
    /\ setter_pc' = IF proc # NoProc THEN "terminate" ELSE "idle"
    /\ fresh' = 0
    /\ UNCHANGED <<hostvars, lock, pc, raised, workervars, parent,
                   poll_pc, success_count, failure_count, probes, time_hack,
                   imagevars>>

\* What Process.terminate() does to worker w: a process that still runs is
\* killed where it stands (its locals are gone), a finished one is left alone.
Terminated(w) ==
    IF Live(w)
    THEN [state |-> [wstate EXCEPT ![w] = "killed"], sent |-> [wsent EXCEPT ![w] = 0]]
    ELSE [state |-> wstate, sent |-> wsent]

\* Line 244: `self.__proc.terminate()`.
SetterTerminate ==
    /\ parent /\ setter_pc = "terminate"
    /\ IF proc = NoProc
       THEN setter_pc' = "idle" /\ UNCHANGED <<wstate, wsent>>
       ELSE /\ wstate' = Terminated(proc).state
            /\ wsent' = Terminated(proc).sent
            /\ setter_pc' = "join"
    /\ UNCHANGED <<hostvars, alive, poll_reset, lock, pc, raised, wterm, spawned,
                   parent, pollvars, imagevars>>

\* Line 245: `self.__proc.join()`.
SetterJoin ==
    /\ parent /\ setter_pc = "join"
    /\ IF proc = NoProc
       THEN setter_pc' = "idle"
       ELSE ~Live(proc) /\ setter_pc' = "clear"
    /\ UNCHANGED <<hostvars, alive, poll_reset, lock, pc, raised, workervars,
                   parent, pollvars, imagevars>>

\* A last statement of the setter that resets the status with the handle.
SetterClearStatus ==
    /\ parent /\ setter_pc = "clear"
    /\ proc' = NoProc
    /\ laststatus' = "none"
    /\ setter_pc' = "idle"
    /\ UNCHANGED <<queue, lastprogress, alive, poll_reset, lock, pc, raised,
                   workervars, parent, pollvars, imagevars>>

\* Line 246: `self.__proc = None`.
SetterClear ==
    /\ parent /\ setter_pc = "clear"
    /\ proc' = NoProc
    /\ setter_pc' = "idle"
    /\ UNCHANGED <<queue, lastprogress, laststatus, alive, poll_reset, lock, pc, raised,
                   workervars, parent, pollvars, imagevars>>

\* ------------------------------------------------- _send_file_to_host
\* capture_progress that puts its datum without a look at the parent.
WorkerProgressNoCheck(w) ==
    /\ wstate[w] = "running"
    /\ Len(queue) < MaxQueue
    /\ \E sent \in (wsent[w] + 1)..ImageSize :
          /\ queue' = Append(queue, <<"progress", <<sent, ImageSize>>, w>>)
          /\ wsent' = [wsent EXCEPT ![w] = sent]
          /\ UNCHANGED wstate
    /\ UNCHANGED <<proc, lastprogress, laststatus, alive, poll_reset, lock, pc, raised,
                   setter_pc, wterm, spawned, parent, pollvars, imagevars>>

\* capture_progress(sent, total), called by NetDimm.send with growing sent:
\* the worker leaves at once when its parent is gone, else it puts the datum.
WorkerProgress(w) ==
    /\ wstate[w] = "running"
    /\ Len(queue) < MaxQueue
    /\ IF ~parent
       THEN /\ wstate' = [wstate EXCEPT ![w] = "orphaned"]
            /\ wsent' = [wsent EXCEPT ![w] = 0]
            /\ UNCHANGED queue
       ELSE \E sent \in (wsent[w] + 1)..ImageSize :
               /\ queue' = Append(queue, <<"progress", <<sent, ImageSize>>, w>>)
               /\ wsent' = [wsent EXCEPT ![w] = sent]
               /\ UNCHANGED wstate
    /\ UNCHANGED <<proc, lastprogress, laststatus, alive, poll_reset, lock, pc, raised,
                   setter_pc, wterm, spawned, parent, pollvars, imagevars>>

\* A worker that goes on running after its terminal message.
WorkerFinishGoesOn(w) ==
    /\ wstate[w] = "running"
    /\ Len(queue) < MaxQueue
    /\ \E tag \in {"success", "failure"} :
          queue' = Append(queue, <<tag, <<0, 0>>, w>>)
    /\ wterm' = [wterm EXCEPT ![w] = IF @ < 2 THEN @ + 1 ELSE @]
    /\ UNCHANGED <<proc, lastprogress, laststatus, alive, poll_reset, lock, pc, raised,
                   setter_pc, wstate, wsent, spawned, parent, pollvars, imagevars>>

\* Lines 94 and 96: the one put of ("success", None) or ("failure", str(e)),
\* after which the function has nothing left to do but return.
WorkerFinish(w) ==
    /\ wstate[w] = "running"
    /\ Len(queue) < MaxQueue
    /\ \E tag \in {"success", "failure"} :
          queue' = Append(queue, <<tag, <<0, 0>>, w>>)
    /\ wstate' = [wstate EXCEPT ![w] = "posted"]
    /\ wterm' = [wterm EXCEPT ![w] = @ + 1]
    /\ wsent' = [wsent EXCEPT ![w] = 0]
    /\ UNCHANGED <<proc, lastprogress, laststatus, alive, poll_reset, lock, pc, raised,
                   setter_pc, spawned, parent, pollvars, imagevars>>

\* The process ends after its target function returned.
WorkerExit(w) ==
    /\ wstate[w] = "posted"
    /\ wstate' = [wstate EXCEPT ![w] = "exited"]
    /\ UNCHANGED <<hostvars, alive, poll_reset, lock, pc, raised, setter_pc, wsent,
                   wterm, spawned, parent, pollvars, imagevars>>

\* The process that owns the Host goes away (psutil.pid_exists(parent_pid)
\* turns false).  The Host object and its threads go with it: its fields are
\* no one's to read any more and are given their initial values.  The worker
\* processes and what they have put on the pipe are left behind.
ParentDies ==
    /\ parent
    /\ parent' = FALSE
    /\ proc' = NoProc
    /\ lastprogress' = Sentinel
    /\ laststatus' = "none"
    /\ alive' = FALSE
    /\ poll_reset' = FALSE
    /\ lock' = "free"
    /\ pc' = "idle"
    /\ raised' = "none"
    /\ setter_pc' = "idle"
    /\ poll_pc' = "status"
    /\ success_count' = 0
    /\ failure_count' = 0
    /\ probes' = <<>>
    /\ fresh' = DEBOUNCE_SECONDS
    /\ UNCHANGED <<queue, workervars, time_hack, imagevars>>

\* ------------------------------------- Host.reboot, Host.wipe, Host.info
\* None of them touches the transfer state.  Each makes at most one NetDimm
\* call, whose outcome (answered, or NetDimmException) is an input.
DimmOutcomes == {"dimm_ok", "dimm_error"}

\* reboot without the test of line 215.
RebootNoCheck ==
    /\ parent /\ pc = "idle" /\ lock = "free"
    /\ raised' \in DimmOutcomes
    /\ UNCHANGED <<hostvars, alive, poll_reset, lock, pc, setter_pc, workervars,
                   parent, pollvars, imagevars>>

\* Lines 214-223: raise mid-transfer; else netdimm.reboot(), True when it
\* was answered and False on NetDimmException.
Reboot ==
    /\ parent /\ pc = "idle" /\ lock = "free"
    /\ IF proc # NoProc
       THEN raised' = "midtransfer"
       ELSE raised' \in DimmOutcomes
    /\ UNCHANGED <<hostvars, alive, poll_reset, lock, pc, setter_pc, workervars,
                   parent, pollvars, imagevars>>

\* Lines 343-352: return mid-transfer; else wipe_current_game(), and a
\* NetDimmException is passed over.
Wipe ==
    /\ parent /\ pc = "idle" /\ lock = "free"
    /\ IF proc # NoProc
       THEN raised' = "skipped"
       ELSE raised' \in DimmOutcomes
    /\ UNCHANGED <<hostvars, alive, poll_reset, lock, pc, setter_pc, workervars,
                   parent, pollvars, imagevars>>

\* info whose NetDimmException reaches the caller.
InfoPropagates ==
    /\ parent /\ pc = "idle" /\ lock = "free"
    /\ IF proc # NoProc
       THEN raised' = "skipped"
       ELSE raised' \in {"dimm_ok", "netdimm"}
    /\ UNCHANGED <<hostvars, alive, poll_reset, lock, pc, setter_pc, workervars,
                   parent, pollvars, imagevars>>

\* Lines 355-364: None mid-transfer; else netdimm.info(), and None on
\* NetDimmException.
Info ==
    /\ parent /\ pc = "idle" /\ lock = "free"
    /\ IF proc # NoProc
       THEN raised' = "skipped"
       ELSE raised' \in DimmOutcomes
    /\ UNCHANGED <<hostvars, alive, poll_reset, lock, pc, setter_pc, workervars,
                   parent, pollvars, imagevars>>

\* What reboot and info hand back for an outcome (wipe hands back nothing).
RebootResult(outcome) == outcome = "dimm_ok"

InfoResult(outcome) == IF outcome = "dimm_ok" THEN "NetDimmInfo" ELSE "None"

\* ------------------------------------------------------------ Host.crc
\* crc over the file as it is.
CrcUnpatched ==
    /\ parent
    /\ crc_data' = image.data
    /\ UNCHANGED <<hostvars, alive, poll_reset, lock, pc, raised, setter_pc, workervars,
                   parent, pollvars, image, sent_data>>

\* Lines 331-340: no lock and no NetDimm object; the file is read, patched,
\* and handed to the static NetDimm.crc.
Crc ==
    /\ parent
    /\ crc_data' = HandlePatches(image.data, image.target, image.patches, image.settings)
    /\ UNCHANGED <<hostvars, alive, poll_reset, lock, pc, raised, setter_pc, workervars,
                   parent, pollvars, image, sent_data>>

\* Lines 80-92 of the worker started by line 321 with (filename, patches,
\* settings, self.target): the file is read, patched, and handed to
\* NetDimm.send.
WorkerImage ==
    /\ sent_data' = HandlePatches(image.data, image.target, image.patches, image.settings)
    /\ UNCHANGED <<hostvars, alive, poll_reset, lock, pc, raised, setter_pc, workervars,
                   parent, pollvars, image, crc_data>>

\* ------------------------------------------------- Host.__poll_thread
\* Line 158: `self.status != STATUS_TRANSFERRING` (status takes the lock),
\* then lines 160-163, the reset that the setter asked for.
PollStatus ==
    /\ parent /\ poll_pc = "status" /\ lock = "free"
    /\ Status # "transferring"
    /\ poll_pc' = "ping"
    /\ IF poll_reset
       THEN poll_reset' = FALSE /\ success_count' = 0 /\ failure_count' = 0
       ELSE UNCHANGED <<poll_reset, success_count, failure_count>>
    /\ UNCHANGED <<hostvars, alive, lock, pc, raised, setter_pc, workervars, parent,
                   probes, fresh, time_hack, imagevars>>

\* The counters only ever matter through `>= DEBOUNCE_SECONDS`, so they are
\* kept saturated at that value.
Bump(n) == IF n < DEBOUNCE_SECONDS THEN n + 1 ELSE n

\* The history after one more ping with result up.
Recorded(up) ==
    IF Len(probes) < DEBOUNCE_SECONDS THEN Append(probes, up) ELSE Append(Tail(probes), up)

\* A ping that leaves the counter of the other result as it is.
PollPingNoZero ==
    /\ parent /\ poll_pc = "ping"
    /\ \E up \in BOOLEAN :
          /\ probes' = Recorded(up)
          /\ fresh' = IF up THEN Bump(fresh) ELSE fresh
          /\ IF up
             THEN /\ success_count' = Bump(success_count)
                  /\ failure_count' = failure_count
                  /\ poll_pc' = IF Bump(success_count) >= DEBOUNCE_SECONDS
                                THEN "publish" ELSE "timehack"
             ELSE /\ success_count' = success_count
                  /\ failure_count' = Bump(failure_count)
                  /\ poll_pc' = IF Bump(failure_count) >= DEBOUNCE_SECONDS
                                THEN "publish" ELSE "status"
    /\ UNCHANGED <<hostvars, alive, poll_reset, lock, pc, raised, setter_pc, workervars,
                   parent, time_hack, imagevars>>

\* Lines 165-179 and 199-201: one ping and the two counters.
PollPing ==
    /\ parent /\ poll_pc = "ping"
    /\ \E up \in BOOLEAN :
          /\ probes' = Recorded(up)
          /\ fresh' = IF up THEN Bump(fresh) ELSE fresh
          /\ IF up
             THEN /\ success_count' = Bump(success_count)
                  /\ failure_count' = 0
                  /\ poll_pc' = IF Bump(success_count) >= DEBOUNCE_SECONDS
                                THEN "publish" ELSE "timehack"
             ELSE /\ success_count' = 0
                  /\ failure_count' = Bump(failure_count)
                  /\ poll_pc' = IF Bump(failure_count) >= DEBOUNCE_SECONDS
                                THEN "publish" ELSE "status"
    /\ UNCHANGED <<hostvars, alive, poll_reset, lock, pc, raised, setter_pc, workervars,
                   parent, time_hack, imagevars>>

\* Lines 181-184 and 202-205: publish the debounced value under the lock.
PollPublish ==
    /\ parent /\ poll_pc = "publish" /\ lock = "free"
    /\ alive' = (success_count >= DEBOUNCE_SECONDS)
    /\ poll_pc' = IF success_count >= DEBOUNCE_SECONDS THEN "timehack" ELSE "status"
    /\ UNCHANGED <<hostvars, poll_reset, lock, pc, raised, setter_pc, workervars,
                   parent, success_count, failure_count, probes, fresh, time_hack,
                   imagevars>>

\* Lines 187-190: the time hack of a successful cycle.  When five seconds
\* have passed since the last one (due) the thread takes the lock of line
\* 190; else it goes on to the sleep of line 207.
PollTimeHack ==
    /\ parent /\ poll_pc = "timehack"
    /\ \E due \in BOOLEAN :
          IF due
          THEN lock = "free" /\ lock' = "poll" /\ poll_pc' = "hack"
          ELSE poll_pc' = "status" /\ UNCHANGED lock
    /\ UNCHANGED <<hostvars, alive, poll_reset, pc, raised, setter_pc, workervars,
                   parent, success_count, failure_count, probes, fresh, time_hack,
                   imagevars>>

\* The thread is inside NetDimm.set_time_limit, line 194.
InTimeHack == poll_pc = "hack" /\ time_hack

\* Lines 191-197, inside `with self.__lock`: when time_hack is set, the thread
\* makes a NetDimm and sends set_time_limit(10), and a NetDimmException is
\* passed over.  The step is the end of the block: the command, if any, has
\* come back, the lock is released, and the sleep of line 207 follows.
PollHack ==
    /\ parent /\ poll_pc = "hack"
    /\ lock' = "free"
    /\ poll_pc' = "status"
    /\ UNCHANGED <<hostvars, alive, poll_reset, pc, raised, setter_pc, workervars,
                   parent, success_count, failure_count, probes, fresh, time_hack,
                   imagevars>>

\* What a tick leaves behind when it neither logs, nor calls, nor writes.
Quiet ==
    /\ logs' = <<>>
    /\ sends' = <<>>
    /\ tick_pc' = "idle"
    /\ UNCHANGED <<current, power_state, events>>

\* A tick that logs a line where there is nothing to do.
StayNoisy ==
    /\ state' = state
    /\ logs' = <<<<"waiting">>>>
    /\ sends' = <<>>
    /\ tick_pc' = "idle"
    /\ UNCHANGED <<current, power_state, events>>

\* Nothing to do in this state for now.
Stay == state' = state /\ Quiet

\* A first tick that waits for the host before it leaves STARTUP.
StartupWhenAlive ==
    /\ state' = IF alive THEN "WAIT_FOR_CABINET_POWER_ON" ELSE state
    /\ logs' = <<<<"waiting for power on">>>>
    /\ sends' = <<>>
    /\ tick_pc' = "idle"
    /\ UNCHANGED <<current, power_state, events>>

\* STARTUP -> WAIT_FOR_CABINET_POWER_ON, unconditional on first tick.
Startup ==
    /\ state' = "WAIT_FOR_CABINET_POWER_ON"
    /\ logs' = <<<<"waiting for power on">>>>
    /\ sends' = <<>>
    /\ tick_pc' = "idle"
    /\ UNCHANGED <<current, power_state, events>>

\* No game, and the tick stays in WAIT_FOR_CABINET_POWER_ON.
NoGameWaits ==
    /\ state' = state
    /\ logs' = <<<<"has no associated game, waiting for power off">>>>
    /\ sends' = <<>>
    /\ tick_pc' = "idle"
    /\ UNCHANGED <<current, power_state, events>>

\* WAIT_FOR_CABINET_POWER_ON -> WAIT_FOR_CABINET_POWER_OFF, when the host is
\* alive and no game is selected.
NoGame ==
    /\ state' = "WAIT_FOR_CABINET_POWER_OFF"
    /\ logs' = <<<<"has no associated game, waiting for power off">>>>
    /\ sends' = <<>>
    /\ tick_pc' = "idle"
    /\ UNCHANGED <<current, power_state, events>>

\* WAIT_FOR_CABINET_POWER_ON -> SEND_CURRENT_GAME, when the host is alive and
\* a game is selected, and in SEND_CURRENT_GAME the call of host.send.
SendGame ==
    /\ state' = "SEND_CURRENT_GAME"
    /\ logs' = <<<<"sending game", filename>>>>
    /\ sends' = <<SendArgs>>
    /\ current' = filename
    /\ events' = Noted("send")
    /\ tick_pc' = "send"
    /\ UNCHANGED power_state

\* any -> WAIT_FOR_CABINET_POWER_ON, when the host is not alive; a transfer
\* in flight is force-terminated by `host.alive = False`.
HostDown ==
    /\ state' = "WAIT_FOR_CABINET_POWER_ON"
    /\ logs' = <<>>
    /\ sends' = <<>>
    /\ tick_pc' = IF state = "WAIT_FOR_CURRENT_GAME" THEN "offline" ELSE "idle"
    /\ UNCHANGED <<current, power_state, events>>

\* WAIT_FOR_CURRENT_GAME -> CHECK_CURRENT_GAME on COMPLETED,
\* -> WAIT_FOR_CABINET_POWER_ON on FAILED.
WaitForGame ==
    IF Status = "completed" THEN state' = "CHECK_CURRENT_GAME" /\ Quiet
    ELSE IF Status = "failed" THEN state' = "WAIT_FOR_CABINET_POWER_ON" /\ Quiet
    ELSE Stay

\* CHECK_CURRENT_GAME -> WAIT_FOR_CABINET_POWER_OFF, after verification.
CheckGame == state' = "WAIT_FOR_CABINET_POWER_OFF" /\ Quiet

\* WAIT_FOR_CABINET_POWER_OFF -> WAIT_FOR_CABINET_DISCONNECT, when the
\* selected file has changed and power_cycle is true: the outlet is driven
\* OFF.
PowerCycle ==
    /\ state' = "WAIT_FOR_CABINET_DISCONNECT"
    /\ power_state' = "off"
    /\ events' = <<"off">>
    /\ logs' = <<>>
    /\ sends' = <<>>
    /\ tick_pc' = "idle"
    /\ UNCHANGED current

\* The outlet is driven ON at the next tick, whatever the liveness.
DisconnectAtOnce ==
    /\ state' = "WAIT_FOR_CABINET_POWER_ON"
    /\ power_state' = "on"
    /\ events' = Noted("on")
    /\ logs' = <<>>
    /\ sends' = <<>>
    /\ tick_pc' = "idle"
    /\ UNCHANGED current

\* WAIT_FOR_CABINET_DISCONNECT: the tick waits for liveness to flip to false,
\* then drives the outlet ON and returns to WAIT_FOR_CABINET_POWER_ON.
Disconnect ==
    IF alive THEN Stay
    ELSE /\ state' = "WAIT_FOR_CABINET_POWER_ON"
         /\ power_state' = "on"
         /\ events' = Noted("on")
         /\ logs' = <<>>
         /\ sends' = <<>>
         /\ tick_pc' = "idle"
         /\ UNCHANGED current

\* The transitions of one tick of an enabled cabinet.
Transition ==
    IF state = "STARTUP" THEN Startup
    ELSE IF state = "WAIT_FOR_CABINET_DISCONNECT" THEN Disconnect
    ELSE IF state = "WAIT_FOR_CABINET_POWER_ON"
    THEN IF ~alive THEN Stay
         ELSE IF filename = NoFile THEN NoGame
         ELSE SendGame
    ELSE IF ~alive THEN HostDown
    ELSE IF state = "SEND_CURRENT_GAME"
    THEN IF filename = NoFile THEN Stay ELSE SendGame
    ELSE IF state = "WAIT_FOR_CURRENT_GAME" THEN WaitForGame
    ELSE IF state = "CHECK_CURRENT_GAME" THEN CheckGame
    ELSE IF filename # current /\ power_cycle /\ outlet # NoOutlet THEN PowerCycle
    ELSE Stay

\* A tick that does not look at enabled.
CabinetTickAnyway ==
    /\ exists /\ tick_pc = "idle"
    /\ Transition
    /\ UNCHANGED <<exists, enabled, filename, cabinet_patches, cabinet_settings,
                   cabinet_srams, power_cycle, outlet, controllable, request,
                   response, responding>>

\* Cabinet.tick up to its return or to the call of the Host it makes:
\* tick_pc = "send" is the call of host.send, tick_pc = "offline" the call of
\* `host.alive = False` that force-terminates the transfer.
CabinetTick ==
    /\ exists /\ tick_pc = "idle"
    /\ IF enabled THEN Transition ELSE state' = state /\ Quiet
    /\ UNCHANGED <<exists, enabled, filename, cabinet_patches, cabinet_settings,
                   cabinet_srams, power_cycle, outlet, controllable, request,
                   response, responding>>

\* The call of the Host has come back: host.send has returned (and has not
\* raised), or the setter has.
CabinetReturns ==
    /\ tick_pc # "idle" /\ pc = "idle" /\ setter_pc = "idle"
    /\ state' = IF tick_pc = "send" /\ raised = "none"
                THEN "WAIT_FOR_CURRENT_GAME" ELSE state
    /\ tick_pc' = "idle"
    /\ UNCHANGED <<exists, enabled, filename, current, cabinet_patches,
                   cabinet_settings, cabinet_srams, power_cycle, outlet, controllable,
                   power_state,
                   logs, sends, events, request, response, responding>>

\* ------------------------------------------------- the control plane
\* jsonify, lines 31-42: what the decorated view answers when the function
\* under it has raised or has returned.
Jsonify(raises) == IF raises THEN "error" ELSE "ok"

\* A view without the decorator: its own exception leaves the view, and what
\* it returns is the answer of the decorated view it ends with.
Undecorated(raises) == IF raises THEN "unhandled" ELSE Jsonify(FALSE)

\* createcabinet, PUT /cabinets/<ip>.
CreateCabinet ==
    \E body \in BOOLEAN :
       LET raises == ~body \/ exists
       IN /\ request' = Request("create", body, "none", FALSE)
          /\ response' = Jsonify(raises)
          /\ IF raises
             THEN UNCHANGED <<exists, filename, cabinet_patches, cabinet_settings,
                              cabinet_srams, enabled, power_cycle, outlet>>
             ELSE /\ exists' = TRUE
                  /\ filename' = NoFile
                  /\ cabinet_patches' =
                         [g \in Files |-> IF g \in Roms THEN <<>> ELSE Absent]
                  /\ cabinet_settings' = [g \in Files |-> "none"]
                  /\ cabinet_srams' = [g \in Files |-> "none"]
                  /\ enabled' = TRUE
                  /\ power_cycle' = FALSE
                  /\ outlet' = NoOutlet
          /\ UNCHANGED <<state, tick_pc, current, controllable, power_state, logs,
                         sends, events, responding>>

\* updatecabinet, POST /cabinets/<ip>.
UpdateCabinet ==
    /\ exists
    /\ \E body \in BOOLEAN, e \in BOOLEAN :
          /\ request' = Request("update", body, "none", FALSE)
          /\ response' = Jsonify(~body)
          /\ enabled' = IF body THEN e ELSE enabled
    /\ UNCHANGED <<exists, state, tick_pc, filename, current, cabinet_patches,
                   cabinet_settings, cabinet_srams, power_cycle, outlet, controllable,
                   power_state,
                   logs, sends, events, responding>>

\* Lines 490-596 of updateoutlet: the configuration made of the outlet data
\* of a request.  No branch looks at the value of the outlet number.
OutletConfig(data) ==
    IF data.type \in KnownTypes /\ data.complete
    THEN [type |-> data.type, outlet |-> IF data.type = "snmp" THEN 0 ELSE data.outlet]
    ELSE NoOutlet

\* updateoutlet, POST /cabinets/<ip>/outlet.
UpdateOutlet ==
    /\ exists
    /\ \E body \in BOOLEAN, data \in OutletData, c \in BOOLEAN, p \in BOOLEAN :
          /\ request' = [Request("outlet", body, "none", FALSE) EXCEPT
                            !.outlet = data, !.controllable = c, !.power_cycle = p]
          /\ response' = Jsonify(~body)
          /\ IF body
             THEN /\ outlet' = OutletConfig(data)
                  /\ controllable' = c
                  /\ power_cycle' = p
             ELSE UNCHANGED <<outlet, controllable, power_cycle>>
    /\ UNCHANGED <<exists, state, tick_pc, enabled, filename, current,
                   cabinet_patches, cabinet_settings, cabinet_srams, power_state, logs,
                   sends,
                   events, responding>>

\* updatepower without the test of controllable.
UpdatePowerNoGate ==
    /\ exists
    /\ \E st \in {"on", "off", "up"}, body \in BOOLEAN, admin \in BOOLEAN :
          LET raises == st \notin {"on", "off"}
          IN /\ request' = Request("power", body, st, body /\ admin)
             /\ response' = Jsonify(raises)
             /\ power_state' = IF raises THEN power_state ELSE st
    /\ UNCHANGED <<exists, state, tick_pc, enabled, filename, current,
                   cabinet_patches, cabinet_settings, cabinet_srams, power_cycle, outlet,
                   controllable, logs, sends, events, responding>>

\* updatepower, POST /cabinets/<ip>/power/<state>.
UpdatePower ==
    /\ exists
    /\ \E st \in {"on", "off", "up"}, body \in BOOLEAN, admin \in BOOLEAN :
          LET admin_override == body /\ admin
              raises == st \notin {"on", "off"} \/ (~admin_override /\ ~controllable)
          IN /\ request' = Request("power", body, st, admin_override)
             /\ response' = Jsonify(raises)
             /\ power_state' = IF raises THEN power_state ELSE st
    /\ UNCHANGED <<exists, state, tick_pc, enabled, filename, current,
                   cabinet_patches, cabinet_settings, cabinet_srams, power_cycle, outlet,
                   controllable, logs, sends, events, responding>>

\* The SRAM sections a game of a request may carry, each with its 'active'
\* file ("none" when no file is active).
SramLists == {<<>>, <<"none">>, <<"s1">>, <<"s1", "none">>}

\* One element of request.json['games']: the file, its enabled flag, the
\* files of its enabled patches, the number of its settings sections, the
\* settings of an enabled section ("none" when the section is not enabled),
\* and its SRAM sections.
Games == [file : Files, enabled : BOOLEAN, patches : PatchChoices,
          sections : 0..2, settings : SettingsChoices, srams : SramLists]

GameLists == UNION {[1..n -> Games] : n \in 1..MaxGames}

\* Lines 764-765 and 769-770: the game makes the view raise "Logic error".
LogicError(game) == game.sections = 2 \/ Len(game.srams) = 2

\* The loop body without the test of cabinet.target: every cabinet is taken
\* for a Naomi.
UpdateGameAnyTarget(c, game) ==
    IF c.raised THEN c
    ELSE IF ~game.enabled
    THEN [c EXCEPT !.patches[game.file] = Absent]
    ELSE IF LogicError(game)
    THEN [c EXCEPT !.patches[game.file] = game.patches, !.raised = TRUE]
    ELSE [c EXCEPT !.patches[game.file] = game.patches,
                   !.settings[game.file] =
                       IF game.sections = 1 THEN game.settings ELSE "none",
                   !.srams[game.file] =
                       IF Len(game.srams) = 1 THEN Head(game.srams) ELSE "none"]

\* The body of the loop of updateromsforcabinet for one game, on the dicts c;
\* raised tells that an earlier game has ended the loop.
UpdateGame(c, game) ==
    IF c.raised THEN c
    ELSE IF ~game.enabled
    THEN [c EXCEPT !.patches[game.file] = Absent]
    ELSE IF LogicError(game)
    THEN [c EXCEPT !.patches[game.file] = game.patches, !.raised = TRUE]
    ELSE [c EXCEPT !.patches[game.file] = game.patches,
                   !.settings[game.file] =
                       IF image.target = "naomi" /\ game.sections = 1
                       THEN game.settings ELSE "none",
                   !.srams[game.file] =
                       IF image.target = "naomi" /\ Len(game.srams) = 1
                       THEN Head(game.srams) ELSE "none"]

RECURSIVE UpdateGames(_, _)
UpdateGames(c, games) ==
    IF games = <<>> THEN c
    ELSE UpdateGames(UpdateGame(c, Head(games)), Tail(games))

\* updateromsforcabinet for a request with the games given.
UpdateRomsWith(body, games) ==
    /\ exists
    /\ LET c == UpdateGames([patches |-> cabinet_patches,
                             settings |-> cabinet_settings,
                             srams |-> cabinet_srams,
                             raised |-> FALSE], games)
       IN /\ request' = Request("games", body, "none", FALSE)
          /\ response' = Undecorated(~body \/ c.raised)
          /\ cabinet_patches' = IF body THEN c.patches ELSE cabinet_patches
          /\ cabinet_settings' = IF body THEN c.settings ELSE cabinet_settings
          /\ cabinet_srams' = IF body THEN c.srams ELSE cabinet_srams
    /\ UNCHANGED <<exists, state, tick_pc, enabled, filename, current, power_cycle,
                   outlet, controllable, power_state, logs, sends, events, responding>>

\* updateromsforcabinet, POST /cabinets/<ip>/games.
UpdateRoms == \E body \in BOOLEAN, games \in GameLists : UpdateRomsWith(body, games)

\* changegameforcabinet, POST /cabinets/<ip>/filename.
ChangeGame ==
    /\ exists
    /\ \E body \in BOOLEAN, f \in Files \cup {NoFile} :
          /\ request' = Request("filename", body, "none", FALSE)
          /\ response' = Undecorated(~body)
          /\ filename' = IF body THEN f ELSE filename
    /\ UNCHANGED <<exists, state, tick_pc, enabled, current, cabinet_patches,
                   cabinet_settings, cabinet_srams, power_cycle, outlet, controllable,
                   power_state,
                   logs, sends, events, responding>>

\* --------------------------------------------- the Host of test_cabinet.py
\* Everything of the Host: what a step of the cabinet or of the control plane
\* alone leaves as it is.
hostside == <<hostvars, alive, poll_reset, lock, pc, raised, setter_pc, workervars,
              parent, pollvars, imagevars>>

\* host = MagicMock(): host.alive is what the test assigns to it.
MockAlive ==
    /\ alive' = ~alive
    /\ events' = Noted(IF alive THEN "down" ELSE "up")
    /\ UNCHANGED <<hostvars, poll_reset, lock, pc, raised, setter_pc, workervars,
                   parent, pollvars, imagevars>>
    /\ UNCHANGED <<exists, state, tick_pc, enabled, filename, current,
                   cabinet_patches, cabinet_settings, cabinet_srams, power_cycle, outlet,
                   controllable, power_state, logs, sends, request, response,
                   responding>>

\* The same test double asked for host.status: any of the four values, as
\* the fields of a Host that answers it.
MockStatus ==
    /\ \E s \in {"inactive", "transferring", "completed", "failed"} :
          /\ s # Status
          /\ proc' = IF s = "transferring" THEN 1 ELSE NoProc
          /\ laststatus' = IF s \in Terminal THEN s ELSE "none"
    /\ UNCHANGED <<queue, lastprogress, alive, poll_reset, lock, pc, raised, setter_pc,
                   workervars, parent, pollvars, imagevars>>
    /\ UNCHANGED cabinetvars

\* The machine behind the cabinet's address is switched off, or on again.
HostPower ==
    /\ responding' = ~responding
    /\ UNCHANGED hostside
    /\ UNCHANGED <<exists, state, tick_pc, enabled, filename, current,
                   cabinet_patches, cabinet_settings, cabinet_srams, power_cycle, outlet,
                   controllable, power_state, logs, sends, events, request,
                   response>>

\* ------------------------------------------------------------------ system
\* The operations on the transfer state, the setter and the workers.
HostNext ==
    \/ SendBusy /\ UNCHANGED cabinetvars
    \/ SendAccept /\ UNCHANGED cabinetvars
    \/ SendLoop /\ UNCHANGED cabinetvars
    \/ Join /\ UNCHANGED cabinetvars
    \/ Tick /\ UNCHANGED cabinetvars
    \/ Reboot /\ UNCHANGED cabinetvars
    \/ Wipe /\ UNCHANGED cabinetvars
    \/ Info /\ UNCHANGED cabinetvars
    \/ SetAliveFalse /\ UNCHANGED cabinetvars
    \/ SetterTerminate /\ UNCHANGED cabinetvars
    \/ SetterJoin /\ UNCHANGED cabinetvars
    \/ SetterClear /\ UNCHANGED cabinetvars
    \/ \E w \in Workers : WorkerProgress(w) /\ UNCHANGED cabinetvars
    \/ \E w \in Workers : WorkerFinish(w) /\ UNCHANGED cabinetvars
    \/ \E w \in Workers : WorkerExit(w) /\ UNCHANGED cabinetvars
    \/ ParentDies /\ UNCHANGED cabinetvars

\* The ping thread.
PollNext ==
    \/ PollStatus /\ UNCHANGED cabinetvars
    \/ PollPing /\ UNCHANGED cabinetvars
    \/ PollPublish /\ UNCHANGED cabinetvars
    \/ PollTimeHack /\ UNCHANGED cabinetvars
    \/ PollHack /\ UNCHANGED cabinetvars

Next == HostNext \/ PollNext

\* The transfer machinery by itself.  The ping thread writes alive,
\* poll_reset, its own counters and the ping history only, and holds the lock
\* within single steps; no action of HostNext reads what it writes.
Spec == Init /\ [][HostNext]_vars

\* The whole Host.
SystemSpec == Init /\ [][Next]_vars

\* The ping thread and the force-offline of a Host that makes no transfer.
PollSpec == Init /\ [][PollNext \/ (SetAliveFalse /\ UNCHANGED cabinetvars)]_vars

\* crc and the image pipeline of the worker, for every image.
ImageNext ==
    \/ Crc /\ UNCHANGED cabinetvars
    \/ WorkerImage /\ UNCHANGED cabinetvars

ImageSpec == ImageInit /\ [][ImageNext]_vars

\* The cabinet of test_cabinet.py, with any game, patches and settings, on
\* its test double of a Host, and the requests that change what tick reads.
CabinetInit ==
    /\ HostInit /\ image = FirstImage
    /\ exists = TRUE
    /\ \E f \in Files \cup {NoFile}, p \in {Absent, <<"p1">>}, s \in SettingsChoices,
          o \in {NoOutlet, FirstOutlet}, c \in BOOLEAN :
          Constructed(f, p, s, o, c)

CabinetNext ==
    \/ CabinetTick /\ UNCHANGED hostside
    \/ CabinetReturns /\ UNCHANGED hostside
    \/ MockAlive
    \/ MockStatus
    \/ UpdateCabinet /\ UNCHANGED hostside
    \/ ChangeGame /\ UNCHANGED hostside

CabinetSpec == CabinetInit /\ [][CabinetNext]_vars

\* The control plane by itself, before the first cabinet is created.
AppInit ==
    /\ HostInit /\ image \in {FirstImage, [FirstImage EXCEPT !.target = "other"]}
    /\ exists = FALSE
    /\ Constructed(NoFile, Absent, "none", NoOutlet, FALSE)

\* The requests that select the games of a cabinet.
AppNext ==
    \/ CreateCabinet /\ UNCHANGED hostside
    \/ UpdateRoms /\ UNCHANGED hostside
    \/ ChangeGame /\ UNCHANGED hostside

AppSpec == AppInit /\ [][AppNext]_vars

\* The requests that switch its power.
PowerNext ==
    \/ CreateCabinet /\ UNCHANGED hostside
    \/ UpdateOutlet /\ UNCHANGED hostside
    \/ UpdatePower /\ UNCHANGED hostside

PowerSpec == AppInit /\ [][PowerNext]_vars

\* One cabinet with a game selected, on its Host: tick calls the Host, the
\* heartbeat that calls Cabinet.tick calls Host.tick, and the ping thread
\* pings a machine that answers while it is switched on.
FleetInit ==
    /\ HostInit /\ image = FirstImage
    /\ exists = TRUE
    /\ Constructed("a.bin", Absent, "none", NoOutlet, FALSE)

\* Cabinet.tick with the first step of the call it makes.
FleetTick ==
    /\ pc = "idle" /\ setter_pc = "idle"
    /\ CabinetTick
    /\ IF tick_pc' = "send" THEN SendAccept
       ELSE IF tick_pc' = "offline" THEN SetAliveFalse
       ELSE UNCHANGED hostside

\* Host.tick, called between two calls of Cabinet.tick.
FleetHostTick == Tick /\ tick_pc = "idle" /\ UNCHANGED cabinetvars

\* One ping of the machine as it is.
FleetPing == PollPing /\ probes'[Len(probes')] = responding /\ UNCHANGED cabinetvars

FleetNext ==
    \/ FleetTick
    \/ CabinetReturns /\ UNCHANGED hostside
    \/ FleetHostTick
    \/ SendLoop /\ UNCHANGED cabinetvars
    \/ Join /\ UNCHANGED cabinetvars
    \/ SetterTerminate /\ UNCHANGED cabinetvars
    \/ SetterJoin /\ UNCHANGED cabinetvars
    \/ SetterClear /\ UNCHANGED cabinetvars
    \/ \E w \in Workers : WorkerProgress(w) /\ UNCHANGED cabinetvars
    \/ \E w \in Workers : WorkerFinish(w) /\ UNCHANGED cabinetvars
    \/ \E w \in Workers : WorkerExit(w) /\ UNCHANGED cabinetvars
    \/ PollStatus /\ UNCHANGED cabinetvars
    \/ FleetPing
    \/ PollPublish /\ UNCHANGED cabinetvars
    \/ PollTimeHack /\ UNCHANGED cabinetvars
    \/ PollHack /\ UNCHANGED cabinetvars
    \/ HostPower

FleetSpec == FleetInit /\ [][FleetNext]_vars

\* The ping thread of a Host made with either value of time_hack, next to the
\* controller that starts transfers and follows them, and the workers.
ProberInit ==
    /\ \E th \in BOOLEAN : ConstructedHost(th)
    /\ image = FirstImage
    /\ TestCabinet

ProberNext ==
    \/ SendAccept /\ UNCHANGED cabinetvars
    \/ SendLoop /\ UNCHANGED cabinetvars
    \/ Join /\ UNCHANGED cabinetvars
    \/ Tick /\ UNCHANGED cabinetvars
    \/ \E w \in Workers : WorkerProgress(w) /\ UNCHANGED cabinetvars
    \/ \E w \in Workers : WorkerFinish(w) /\ UNCHANGED cabinetvars
    \/ \E w \in Workers : WorkerExit(w) /\ UNCHANGED cabinetvars
    \/ PollStatus /\ UNCHANGED cabinetvars
    \/ PollPing /\ UNCHANGED cabinetvars
    \/ PollPublish /\ UNCHANGED cabinetvars
    \/ PollTimeHack /\ UNCHANGED cabinetvars
    \/ PollHack /\ UNCHANGED cabinetvars

ProberSpec == ProberInit /\ [][ProberNext]_vars

\* FleetSpec with the scheduling the code can count on: the heartbeat keeps
\* calling Cabinet.tick and Host.tick, a thread that can take its next
\* statement takes it, the ping thread keeps running, and a worker whose
\* function has returned exits.  A worker inside NetDimm.send is promised
\* nothing.
FleetLiveSpec ==
    /\ FleetSpec
    /\ WF_vars(FleetTick)
    /\ WF_vars(CabinetReturns /\ UNCHANGED hostside)
    /\ WF_vars(FleetHostTick)
    /\ WF_vars(SendLoop /\ UNCHANGED cabinetvars)
    /\ WF_vars(Join /\ UNCHANGED cabinetvars)
    /\ WF_vars(SetterTerminate /\ UNCHANGED cabinetvars)
    /\ WF_vars(SetterJoin /\ UNCHANGED cabinetvars)
    /\ WF_vars(SetterClear /\ UNCHANGED cabinetvars)
    /\ \A w \in Workers : WF_vars(WorkerExit(w) /\ UNCHANGED cabinetvars)
    /\ WF_vars(PollStatus /\ UNCHANGED cabinetvars)
    /\ WF_vars(FleetPing)
    /\ WF_vars(PollPublish /\ UNCHANGED cabinetvars)
    /\ WF_vars(PollTimeHack /\ UNCHANGED cabinetvars)
    /\ WF_vars(PollHack /\ UNCHANGED cabinetvars)

\* Spec with the scheduling the code can count on: a thread that can take
\* its next statement does take it, and a process whose function has
\* returned exits.  A worker inside NetDimm.send is promised nothing: the
\* DIMM may never answer.
LiveSpec ==
    /\ Spec
    /\ WF_vars(SendLoop /\ UNCHANGED cabinetvars)
    /\ WF_vars(Join /\ UNCHANGED cabinetvars)
    /\ WF_vars(SetterTerminate /\ UNCHANGED cabinetvars)
    /\ WF_vars(SetterJoin /\ UNCHANGED cabinetvars)
    /\ WF_vars(SetterClear /\ UNCHANGED cabinetvars)
    /\ \A w \in Workers : WF_vars(WorkerExit(w) /\ UNCHANGED cabinetvars)

\* LiveSpec for a caller that keeps calling tick.
TickSpec == LiveSpec /\ WF_vars(Tick /\ UNCHANGED cabinetvars)

\* ================================================================ claims
\* Position in the queue of the first terminal message, 0 when there is none.
FirstTerminal(q) ==
    IF \E i \in 1..Len(q) : q[i][1] # "progress"
    THEN CHOOSE i \in 1..Len(q) :
            /\ q[i][1] # "progress"
            /\ \A j \in 1..(i - 1) : q[j][1] = "progress"
    ELSE 0

\* The messages of worker w that are in the queue.
InQueue(w) == {i \in 1..Len(queue) : queue[i][3] = w}

TerminalInQueue(w) == \E i \in InQueue(w) : queue[i][1] # "progress"

\* The step that accepts a send: it is the only one that starts a worker.
AcceptedSend == spawned' = spawned + 1

\* The step by which the process of the Host goes away.
HostGone == parent /\ ~parent'

\* C1: in every reachable state of a Host at most one transfer worker
\* process is live (started and neither exited nor terminated).
C1_AtMostOneLiveWorker == parent => Cardinality(LiveWorkers) <= 1

\* C2 as stated: every run of the worker that has ended has put exactly one
\* terminal message.
C2_EveryRunOneTerminal ==
    \A w \in Workers :
        wstate[w] \in {"exited", "killed", "orphaned"} => wterm[w] = 1

\* C2 as amended: a worker puts at most one terminal message and nothing
\* after it; a run that returns from its function has put exactly one; and
\* once the terminal message of a worker has been taken from the queue, no
\* message of that worker is left in the queue.
C2_TerminalIsLast ==
    \A w \in Workers :
        /\ wterm[w] <= 1
        /\ wstate[w] \in {"posted", "exited"} => wterm[w] = 1
        /\ wstate[w] \in {"unborn", "running", "orphaned"} => wterm[w] = 0
        /\ \A i \in InQueue(w) :
              queue[i][1] # "progress" => \A j \in InQueue(w) : j <= i
        /\ (wterm[w] = 1 /\ ~TerminalInQueue(w)) => InQueue(w) = {}

\* A transfer whose terminal message the controller has taken, status
\* reading COMPLETED, next to a worker that was killed before it put one.
C2_Witness ==
    /\ Readable
    /\ Status = "completed"
    /\ \E w \in Workers : wstate[w] = "exited" /\ wterm[w] = 1 /\ InQueue(w) = {}
    /\ \E w \in Workers : wstate[w] = "killed" /\ wterm[w] = 0

\* C3: once status reads COMPLETED or FAILED it keeps that value over every
\* step of the Host; the only step that changes it is an accepted send.
C3_TerminalStatusSticky ==
    [][(Status \in Terminal) => (Status' = Status \/ AcceptedSend \/ HostGone)]_vars

\* COMPLETED is read with no transfer left, a force-offline has run to its
\* end, and the last operation was a tick that returned.
C3_Witness ==
    /\ Readable
    /\ Status = "completed"
    /\ proc = NoProc
    /\ LiveWorkers = {}
    /\ poll_reset
    /\ setter_pc = "idle"
    /\ raised = "none"

\* C4: status is the recorded terminal status if there is one; otherwise
\* TRANSFERRING if a worker handle exists; otherwise INACTIVE.
C4_StatusValue ==
    /\ laststatus \in Terminal => Status = laststatus
    /\ (laststatus = "none" /\ proc # NoProc) => Status = "transferring"
    /\ (laststatus = "none" /\ proc = NoProc) => Status = "inactive"

\* A terminal status is recorded while the handle is still set (the join has
\* not been done yet): the recorded status wins.
C4_Witness == laststatus = "failed" /\ proc # NoProc /\ Live(proc)

\* C5: while the worker handle is set no step starts a worker, and a send
\* ends with the busy error only in such a state and changes neither the
\* handle, the status, the progress, the queue nor any worker.
C5_BusySendChangesNothing ==
    [][/\ proc # NoProc => ~AcceptedSend
       /\ (raised' = "busy" /\ raised # "busy") =>
             /\ proc # NoProc
             /\ UNCHANGED <<proc, laststatus, lastprogress, queue, workervars, lock,
                            pc>>
      ]_vars

\* A send was refused during a transfer that had made progress.
C5_Witness ==
    /\ raised = "busy"
    /\ proc # NoProc
    /\ Status = "transferring"
    /\ lastprogress # Sentinel


\* The step by which send returns to its caller.
SendReturns == pc = "send_loop" /\ pc' = "idle" /\ parent'

\* C6: an accepted send clears the status, resets the progress and starts
\* exactly one worker; when it returns, either a progress datum is recorded
\* and status is TRANSFERRING, or the handle is cleared and status is
\* COMPLETED or FAILED.
C6_AcceptedSendOutcome ==
    [][/\ AcceptedSend =>
             /\ laststatus' = "none"
             /\ lastprogress' = Sentinel
             /\ proc' = spawned' /\ Live(proc)'
             /\ Cardinality(LiveWorkers') = Cardinality(LiveWorkers) + 1
       /\ SendReturns =>
             \/ lastprogress' # Sentinel /\ Status' = "transferring"
             \/ proc' = NoProc /\ Status' \in Terminal
      ]_vars

\* Worker w has put at least one message since it was started.
Published(w) == wsent[w] > 0 \/ wterm[w] > 0

InSend == parent /\ pc \in {"send_loop", "send_join"}

\* C7: a send that was accepted returns once its worker has put a first
\* message or has ended.
C7_SendReturns ==
    (InSend /\ proc # NoProc /\ (Published(proc) \/ ~Live(proc)))
        ~> (pc = "idle" \/ ~parent)

\* The step by which a tick takes messages from the queue.
TickTakes == parent /\ parent' /\ pc = "idle" /\ lock = "free" /\ Len(queue') < Len(queue)

\* C8: a tick with a worker handle takes the queued messages in order: with
\* no terminal message among them it empties the queue, keeps the last
\* progress datum and returns; else it stops at the first terminal message,
\* records COMPLETED or FAILED, and clears the handle only once the worker it
\* names is dead.  With an empty queue an operation of the controller thread
\* leaves the transfer state as it is.
C8_TickDrains ==
    [][/\ TickTakes =>
             LET k == FirstTerminal(queue) IN
             /\ proc # NoProc /\ proc' = proc
             /\ IF k = 0
                THEN /\ queue' = <<>>
                     /\ lastprogress' = queue[Len(queue)][2]
                     /\ laststatus' = laststatus
                     /\ pc' = "idle" /\ lock' = "free"
                ELSE /\ queue' = SubSeq(queue, k + 1, Len(queue))
                     /\ lastprogress' = Sentinel
                     /\ laststatus' = IF queue[k][1] = "success" THEN "completed" ELSE "failed"
                     /\ pc' = "tick_join" /\ lock' = "ctl"
       /\ (pc = "tick_join" /\ pc' = "idle" /\ parent') =>
             /\ proc' = NoProc /\ lock' = "free"
             /\ UNCHANGED <<queue, lastprogress, laststatus>>
             /\ proc # NoProc => ~Live(proc)
       /\ (Readable /\ pc = "idle" /\ queue = <<>>
              /\ UNCHANGED <<setter_pc, workervars, parent>>) =>
             UNCHANGED <<hostvars, lock, pc>>
      ]_vars

\* A tick has taken a success message and is about to join its worker.
C8_Witness ==
    /\ parent /\ pc = "tick_join"
    /\ laststatus = "completed"
    /\ lastprogress = Sentinel
    /\ proc # NoProc

TickTakesTerminal == pc = "idle" /\ pc' = "tick_join"

SetterClears == setter_pc = "clear" /\ setter_pc' = "idle"

C10_ProgressMonotone ==
    [][(/\ Readable /\ Readable'
        /\ proc # NoProc /\ proc' = proc
        /\ lastprogress # Sentinel /\ lastprogress' # Sentinel) =>
          (lastprogress'[1] >= lastprogress[1] /\ lastprogress'[2] = lastprogress[2])
      ]_vars

\* C11: whenever status reads COMPLETED or FAILED the worker handle is
\* cleared, and a send issued in that state is accepted (as long as the
\* model has a worker left to start).
C11_TerminalStatusFreesHandle ==
    (Readable /\ Status \in Terminal) =>
        /\ proc = NoProc
        /\ pc = "idle"
        /\ spawned < MaxWorkers => ENABLED SendAccept

\* FAILED is read after a second transfer, its worker gone, and a third
\* send can be accepted.
C11_Witness ==
    /\ Readable
    /\ Status = "failed"
    /\ spawned = 2
    /\ wstate[2] = "exited"
    /\ ENABLED SendAccept

\* The step by which `host.alive = False` returns to its caller: line 246,
\* or the test of line 243 finding no handle.
SetterReturns ==
    \/ SetterClears
    \/ SetAliveFalse /\ proc = NoProc

\* C12: when alive := false returns, the cached alive value is false, no
\* transfer worker is live and the handle is cleared.
C12_ForceOfflineLeavesNoWorker ==
    [][SetterReturns => (~alive' /\ proc' = NoProc /\ LiveWorkers' = {})]_vars

\* C13: when alive := false is applied while status is TRANSFERRING, status
\* reads FAILED afterwards and the last progress is the sentinel.
C13_ForceOfflineRecordsFailed ==
    [][(Readable /\ SetterClears /\ Status = "transferring") =>
          (Status' = "failed" /\ lastprogress' = Sentinel)]_vars

\* C14: the messages that send and tick take while the handle names worker
\* N were all produced by worker N.
C14_NoStaleMessageConsumed ==
    [][(parent /\ parent' /\ Len(queue') < Len(queue)) =>
          \A i \in 1..(Len(queue) - Len(queue')) : queue[i][3] = proc]_vars

\* A step of one of the three DIMM operations.
DimmOperation == Reboot \/ Wipe \/ Info

C16_TransportErrorSwallowed ==
    [][(Readable /\ proc = NoProc /\ DimmOperation) =>
          /\ raised' \in DimmOutcomes
          /\ raised' = "dimm_error" =>
                (~RebootResult(raised') /\ InfoResult(raised') = "None")
          /\ lock' = "free" /\ pc' = "idle"
          /\ UNCHANGED <<proc, laststatus, lastprogress, queue>>
      ]_vars

\* A DIMM command failed after a transfer had completed, and COMPLETED is
\* still read.
C16_Witness ==
    /\ Readable
    /\ raised = "dimm_error"
    /\ proc = NoProc
    /\ Status = "completed"

\* The step by which the ping thread publishes a changed value of alive.
PublishesUp == poll_pc = "publish" /\ poll_pc' # "publish" /\ ~alive /\ alive'

PublishesDown == poll_pc = "publish" /\ poll_pc' # "publish" /\ alive /\ ~alive'

\* The last DEBOUNCE_SECONDS pings all had result up.
LastProbesAll(up) ==
    /\ Len(probes) = DEBOUNCE_SECONDS
    /\ \A i \in 1..Len(probes) : probes[i] = up

\* C17: the ping thread turns alive from false to true only when the last
\* DEBOUNCE_SECONDS pings were all answered, and from true to false only
\* when they were all unanswered; and every ping zeroes the counter of the
\* other result.
C17_Debounce ==
    [][/\ PublishesUp => LastProbesAll(TRUE)
       /\ PublishesDown => LastProbesAll(FALSE)
       /\ (poll_pc = "ping" /\ poll_pc' # "ping" /\ parent') =>
             \/ probes'[Len(probes')] /\ failure_count' = 0
             \/ ~probes'[Len(probes')] /\ success_count' = 0
      ]_vars

\* alive is true after an unanswered ping that came after answered ones:
\* the single failure did not flip it.
C17_Witness ==
    /\ alive
    /\ Len(probes) = DEBOUNCE_SECONDS
    /\ ~probes[DEBOUNCE_SECONDS]
    /\ probes[DEBOUNCE_SECONDS - 1]
    /\ failure_count = 1

\* C18: after a force-offline the ping thread does not publish alive = true
\* before DEBOUNCE_SECONDS pings have been answered since.
C18_ResetDiscardsSuccesses ==
    [][PublishesUp => fresh >= DEBOUNCE_SECONDS]_vars

FailureInQueue(w) == \E i \in InQueue(w) : queue[i][1] = "failure"

\* The failure message of worker w has been taken and FAILED is recorded,
\* with no later transfer started.
FailureRecorded(w) ==
    /\ wterm[w] = 1
    /\ ~TerminalInQueue(w)
    /\ laststatus = "failed"
    /\ spawned = w

\* C20: when the worker of a transfer has put ("failure", reason) and tick
\* keeps being called, FAILED is eventually recorded for that transfer.
C20_FailureRecorded ==
    \A w \in Workers :
        (parent /\ proc = w /\ FailureInQueue(w)) ~> (FailureRecorded(w) \/ ~parent)

\* ------------------------------------------------------------ the cabinet
\* A tick that begins in WAIT_FOR_CABINET_POWER_ON with the host alive and a
\* game selected.
TickOfGame ==
    CabinetTick /\ state = "WAIT_FOR_CABINET_POWER_ON" /\ alive /\ filename # NoFile

\* The same with no game selected.
TickOfNoGame ==
    CabinetTick /\ state = "WAIT_FOR_CABINET_POWER_ON" /\ alive /\ filename = NoFile

\* The tick has called host.send once, with the selected file, the patches of
\* that file and the settings of that file, and has made no other call.
SendsGame ==
    /\ sends' = <<<<filename,
                   IF filename \in Keys THEN cabinet_patches[filename] ELSE <<>>,
                   cabinet_settings[filename]>>>>
    /\ tick_pc' = "send"

\* The call of host.send comes back to the tick that made it.
SendComesBack == tick_pc = "send" /\ tick_pc' = "idle"

SkipsGame ==
    /\ state' = "WAIT_FOR_CABINET_POWER_OFF"
    /\ logs' = <<<<"has no associated game, waiting for power off">>>>
    /\ sends' = <<>> /\ tick_pc' = "idle"

\* C22, as stated: every cabinet in WAIT_FOR_CABINET_POWER_ON whose host is
\* alive and which has no selected game moves on tick to
\* WAIT_FOR_CABINET_POWER_OFF, logs that it has no associated game and does
\* not call host.send.
C22_TickWithoutGame == [][TickOfNoGame => SkipsGame]_vars

\* C22, amended: the same of every enabled cabinet.
C22_EnabledTickWithoutGame == [][TickOfNoGame /\ enabled => SkipsGame]_vars

C22_Witness ==
    /\ state = "WAIT_FOR_CABINET_POWER_OFF" /\ alive /\ filename = NoFile
    /\ logs = <<<<"has no associated game, waiting for power off">>>>

\* C23: a tick of a cabinet in WAIT_FOR_CABINET_POWER_ON whose host is not
\* alive leaves the state as it is, logs no line and makes no call of the
\* Host (host.send is not called), whatever game is selected.
C23_DeadHostNoTransition ==
    [][CabinetTick /\ state = "WAIT_FOR_CABINET_POWER_ON" /\ ~alive =>
          /\ state' = state
          /\ logs' = <<>> /\ sends' = <<>> /\ tick_pc' = "idle"]_vars

C23_Witness ==
    /\ state = "WAIT_FOR_CABINET_POWER_ON" /\ ~alive /\ enabled
    /\ filename # NoFile /\ current = NoFile
    /\ logs = <<>> /\ tick_pc = "idle"

\* The tick has moved to WAIT_FOR_CABINET_POWER_ON and has logged that the
\* cabinet waits for power on.
PowersOn ==
    /\ state' = "WAIT_FOR_CABINET_POWER_ON"
    /\ logs' = <<<<"waiting for power on">>>>

\* C24, as stated: a new cabinet is in STARTUP, and the tick of every cabinet
\* in STARTUP moves it to WAIT_FOR_CABINET_POWER_ON and logs that it waits
\* for power on.
C24_FirstTick ==
    /\ state = "STARTUP"
    /\ [][CabinetTick /\ state = "STARTUP" => PowersOn]_vars

\* C24, amended: a new cabinet is in STARTUP, and the tick of every enabled
\* cabinet in STARTUP moves it to WAIT_FOR_CABINET_POWER_ON and logs that it
\* waits for power on, whatever the liveness of the host and the game.
C24_EnabledFirstTick ==
    /\ state = "STARTUP"
    /\ [][CabinetTick /\ state = "STARTUP" /\ enabled => PowersOn]_vars

C24_Witness ==
    /\ state = "WAIT_FOR_CABINET_POWER_ON" /\ logs = <<<<"waiting for power on">>>>
    /\ alive /\ filename # NoFile

\* C25: a tick of a cabinet with enabled = false leaves the state as it is,
\* in every state, and makes no call of the Host (host.send is not called),
\* whatever the liveness of the host and the game.
C25_DisabledFrozen ==
    [][CabinetTick /\ ~enabled =>
          state' = state /\ sends' = <<>> /\ tick_pc' = "idle"]_vars

\* A disabled cabinet that a tick has left where an enabled one would have
\* sent its game.
C25_Witness ==
    /\ ~enabled /\ state = "WAIT_FOR_CABINET_POWER_ON" /\ alive /\ filename # NoFile
    /\ logs = <<>> /\ tick_pc = "idle" /\ request.op = "update"

\* C26: from any state of the cabinet, once the machine has stopped answering
\* ping, and unless it answers again, the cabinet comes to be in
\* WAIT_FOR_CABINET_POWER_ON with no transfer worker left alive; this
\* includes the machine that goes down while the status is TRANSFERRING.
C26_HostDownPowersOn ==
    ~responding ~>
        (responding \/ (state = "WAIT_FOR_CABINET_POWER_ON" /\ LiveWorkers = {}))

\* A tick of an enabled cabinet with power_cycle = true and an outlet, in
\* WAIT_FOR_CABINET_POWER_OFF with its host alive, after the selected file
\* has been changed.
TickOfChange ==
    /\ CabinetTick /\ enabled /\ state = "WAIT_FOR_CABINET_POWER_OFF" /\ alive
    /\ power_cycle /\ outlet # NoOutlet /\ filename # current

\* In the history of a power cycle, event e at place k has event d before it,
\* after place j.
Before(d, j, k) == \E i \in (j + 1)..(k - 1) : events[i] = d

\* C27: for a cabinet with power_cycle = true and an outlet, the tick that
\* finds the selected file changed in WAIT_FOR_CABINET_POWER_OFF writes OFF to
\* the outlet, and from that write on the events come in this order: OFF
\* written, host.alive turned false, ON written, host.alive turned true,
\* host.send called.  No ON is written before host.alive has turned false,
\* and no host.send is called before ON has been written and host.alive has
\* turned true after it.
C27_PowerCycleOrder ==
    /\ [][TickOfChange =>
             events' = <<"off">> /\ power_state' = "off" /\ sends' = <<>>]_vars
    /\ [](events # <<>> =>
             /\ events[1] = "off"
             /\ \A k \in 1..Len(events) :
                   /\ events[k] = "on" => Before("down", 1, k)
                   /\ events[k] = "send" =>
                         \E j \in 2..(k - 1) : events[j] = "on" /\ Before("up", j, k))

C27_Witness ==
    /\ events = <<"off", "down", "on", "up", "send">>
    /\ state = "WAIT_FOR_CURRENT_GAME" /\ power_state = "on"

\* ------------------------------------------------------ the control plane
\* The request just made may switch the power: it names "on" or "off", and
\* it carries a true admin flag or the cabinet is controllable.
MaySwitch ==
    request'.state \in {"on", "off"} /\ (request'.admin \/ controllable)

\* C28: a request to the power endpoint sets the cabinet's power_state to the
\* state it names exactly when that state is "on" or "off" and the request
\* carries a true admin flag or the cabinet is controllable (so an admin
\* request succeeds on a cabinet that is not controllable); every other
\* request ends in an error and leaves power_state as it is.
C28_PowerGate ==
    [][UpdatePower =>
          IF MaySwitch
          THEN power_state' = request'.state /\ response' = "ok"
          ELSE power_state' = power_state /\ response' = "error"]_vars

\* An admin request has switched off a cabinet that is not controllable.
C28_Witness ==
    /\ exists /\ ~controllable
    /\ request.op = "power" /\ request.admin /\ request.state = "off"
    /\ response = "ok" /\ power_state = "off"

\* C29: every answer of a JSON endpoint carries the error flag: "error" when
\* the handler has raised and "ok" with the payload when it has returned,
\* also for the requests that update the games and the selected file of a
\* cabinet and come without a JSON body.
C29_EveryAnswerHasErrorFlag == response \in {"none", "ok", "error"}

\* C30: after any sequence of requests that create the cabinet, update its
\* games and change its selected file, the selected file is None or a key of
\* the cabinet's patches.
C30_SelectedIsKey == exists => filename = NoFile \/ filename \in Keys

\* ------------------------------------------------------- the mutex
\* The ping thread is inside a network call: the ping of line 171, or the
\* set_time_limit of line 194.
ProberOnNetwork == poll_pc = "ping" \/ InTimeHack

\* C32: the ping thread never makes a network call (a ping, or the DIMM's
\* set_time_limit) while it holds the mutex.
C32_NoNetworkUnderLock == ProberOnNetwork => lock # "poll"

\* C33: the ping thread never sends set_time_limit to the DIMM while status
\* is TRANSFERRING, however it interleaves with send, and sends it only when
\* time_hack is true.
C33_NoTimeHackInTransfer == InTimeHack => Status # "transferring"

\* The fields the mutex is there for.
Protected == <<proc, alive, laststatus, lastprogress>>

\* The steps made inside a `with self.__lock` block: lines 313-329 of send,
\* 230-231 of tick, and 181-184 and 202-205 of the ping thread.
UnderLock == SendAccept \/ SendLoop \/ Join \/ Tick \/ PollPublish

\* C31: every write of the worker handle, alive, laststatus and lastprogress
\* is made by a thread that holds the mutex: a step that changes one of them
\* is a step inside a `with self.__lock` block.
C31_WritesUnderLock == [][(Protected' # Protected /\ parent') => UnderLock]_vars

\* C37: with a force-offline running next to tick and send, no join meets a
\* handle that has been cleared (the controller's raises AttributeError, the
\* setter's terminate and join find the handle set), and no worker is live
\* while the handle is cleared.
C37_NoRaceOnHandle ==
    /\ [](parent => raised # "attr" /\ (proc = NoProc => LiveWorkers = {}))
    /\ [][(setter_pc \in {"terminate", "join"} /\ setter_pc' # setter_pc /\ parent')
             => proc # NoProc]_vars

\* C39: whenever a terminal status is recorded, the last progress is the
\* sentinel (-1, -1), and progress raises the no-active-transfer error.
C39_TerminalMeansNoProgress ==
    parent /\ laststatus \in Terminal => lastprogress = Sentinel /\ Progress = "raise"

\* The terminal message of a transfer has been taken and its worker joined.
C39_Witness ==
    /\ laststatus = "completed" /\ proc = NoProc /\ pc = "idle"
    /\ wstate[1] = "exited" /\ wsent[1] = 0 /\ wterm[1] = 1 /\ spawned = 1

\* ----------------------------------------------------------- the worker
\* Worker w puts a message in this step.
Puts(w) == Len(queue') = Len(queue) + 1 /\ queue'[Len(queue')][3] = w

\* Worker w leaves in this step because its parent is gone.
Bails(w) == wstate[w] = "running" /\ wstate'[w] = "orphaned"

\* C34: a progress callback looks for the parent process first.  When the
\* parent is gone the worker exits in that step and puts nothing, then or
\* later (no progress datum, no terminal message); a progress datum is put
\* only while the parent exists, and it is the one message
\* ("progress", (sent, total)) of that callback.
C34_ProgressCallback ==
    [][\A w \in Workers :
          /\ Bails(w) => ~parent /\ queue' = queue
          /\ wstate[w] = "orphaned" => wstate'[w] = "orphaned" /\ ~Puts(w)
          /\ (Puts(w) /\ queue'[Len(queue')][1] = "progress") =>
                /\ parent
                /\ queue' = Append(queue, <<"progress", <<wsent'[w], ImageSize>>, w>>)
                /\ wsent'[w] > wsent[w]]_vars

\* A worker that has put a progress datum has found its parent gone at the
\* next callback and has left without a terminal message.
C34_Witness ==
    /\ ~parent /\ wstate[1] = "orphaned" /\ wterm[1] = 0
    /\ queue = <<<<"progress", <<1, ImageSize>>, 1>>>>

\* A thread holds the mutex, and the worker of the handle, if there is one,
\* has published a message.
HeldWithMessage == parent /\ lock # "free" /\ (proc # NoProc => Published(proc))

\* C38: no thread takes the mutex while it holds it, so every acquisition is
\* followed by its release, provided the worker publishes a message.
C38_LockReleased == HeldWithMessage ~> (lock = "free" \/ ~parent)

\* The outlet numbers AP7900Outlet takes.
AP7900Outlets == 1..8

\* The outlet data of a request is a valid configuration: its type is known,
\* every key of that type is there and has a value that can be read, and for
\* an ap7900 the outlet number is one the device has.
ValidOutlet(data) ==
    /\ data.type \in KnownTypes
    /\ data.complete
    /\ data.type = "ap7900" => data.outlet \in AP7900Outlets

\* C36: a request to the outlet endpoint stores a configuration only when the
\* outlet data it carries is valid, and None for every other outlet data;
\* controllable and power_cycle are updated in both cases.
C36_OutletValidated ==
    [][(UpdateOutlet /\ request'.body) =>
          /\ outlet' # NoOutlet <=> ValidOutlet(request'.outlet)
          /\ controllable' = request'.controllable
          /\ power_cycle' = request'.power_cycle]_vars

\* The cabinet's part of a games update, with the settings the cabinet had
\* before: updatecabinet (line 466) changes the target of a cabinet and leaves
\* the settings chosen for the target it had.
SettingsImages ==
    {im \in Images :
        im.data = FirstImage.data /\ im.patches = <<>> /\ Len(im.settings) <= 1}

SettingsInit ==
    /\ HostInit /\ image \in SettingsImages
    /\ exists = TRUE
    /\ \E s \in SettingsChoices : Constructed(NoFile, Absent, s, NoOutlet, FALSE)

SettingsNext ==
    \/ WorkerImage /\ UNCHANGED cabinetvars
    \/ UpdateRoms /\ UNCHANGED hostside

SettingsSpec == SettingsInit /\ [][SettingsNext]_vars

\* The image comes out of the patch pipeline as it does with no settings.
SettingsIgnored(im) ==
    HandlePatches(im.data, im.target, im.patches, im.settings)
        = HandlePatches(im.data, im.target, im.patches, <<>>)

\* What _handle_patches makes of the image of this Host with no settings.
Unset == HandlePatches(image.data, image.target, image.patches, <<>>)

\* The games of a request whose files must hold None afterwards: every
\* enabled one (all = TRUE), or the enabled ones the loop has gone through
\* before it raised.
RECURSIVE Reached(_, _)
Reached(games, i) ==
    i = 0 \/ (~(games[i].enabled /\ LogicError(games[i])) /\ Reached(games, i - 1))

Cleared(games, all) ==
    \A i \in 1..Len(games) :
        (games[i].enabled /\ (all \/ Reached(games, i))) =>
            /\ cabinet_settings'[games[i].file] = "none"
            /\ cabinet_srams'[games[i].file] = "none"

====
